---- MODULE Spec2Model ----
(***************************************************************************)
(* Gamma-ray shielding sweep: the sweep controller (setup.py main and its  *)
(* __main__ guard), the per-configuration runner (simulation.py            *)
(* run_simulation) and the dose functions (dose.py), as one state machine. *)
(*                                                                         *)
(* Units.  Configuration values are integers: energy in 0.01 MeV, channel  *)
(* diameter in 0.01 cm, detector distance in cm, detector angle in         *)
(* degrees.  Every Python float (flux, factor, dose, length) is a decimal  *)
(* floating-point number [m, e] standing for m * 10^e, kept to four        *)
(* significant digits with truncation, so products, quotients and sums     *)
(* round as float arithmetic does.                                         *)
(***************************************************************************)
EXTENDS Integers, Sequences, FiniteSets, TLC

(***************************************************************************)
(* Bounds of the model.                                                    *)
(***************************************************************************)
\* how many of the test-mode detector angles the modelled sweep covers
NumAngles == 2
\* how many entries the stores have that the ranking is applied to on its own
MaxRanked == 6
\* how many energies below the table and how many above it the factor is
\* evaluated at, besides the nodes
NumOutside == 8
\* how many values of each parameter list the sweep has where the order of
\* its loops is examined
NumPerList == 2
\* how many times the program is launched (the first sweep and its resumes)
MaxRuns == 2
\* how many entries the checkpoint file found by the first launch may hold
MaxLoaded == 1

VARIABLES
  pc,                     \* where the process is in main / run_simulation
  status,                 \* "running", "exit0", "exit1" or "killed"
  runs,                   \* launches of the program so far
  cwd,                    \* the process working directory: "orig" or "run"
  ckpt,                   \* results/intermediate_results.json
  final_file,             \* results/final_results.json
  idx,                    \* position of the loops in configs
  all_results,            \* main's ResultStore
  completed_simulations,
  failed_simulations,
  result,                 \* run_simulation's results dict / return value
  rs,                     \* the current or last run_simulation call: its
                          \* arguments, its run_id, how it was left
  ki,                     \* the first KeyboardInterrupt of this process
  loaded,                 \* the store this process loaded
  calls,                  \* keys this process called run_simulation for
  returned,               \* what those calls returned, by key
  how,                    \* how the process ended, and whether the checkpoint
                          \* then held the store it had in memory
  durable,                \* the checkpoint as the persist in progress found it
  prev,                   \* the previous process, as it ended
  post,                   \* what the analysis phase of this process has
                          \* attempted, and the ranking it has printed
  params                  \* config.py's parameter lists, as imported

vars ==
  <<pc, status, runs, cwd, ckpt, final_file, idx, all_results,
    completed_simulations, failed_simulations, result, rs, ki, loaded, calls,
    returned, how, durable, prev, post, params>>

(***************************************************************************)
(* Decimal floating point.                                                 *)
(***************************************************************************)
Mant == 10 * 1000

Abs(n) == IF n < 0 THEN -n ELSE n

\* truncating division, as float rounding toward zero
TDiv(a, b) == IF a >= 0 THEN a \div b ELSE -((-a) \div b)

RECURSIVE Norm(_, _)
Norm(m, e) ==
  IF m = 0 THEN [m |-> 0, e |-> 0]
  ELSE IF Abs(m) >= Mant THEN Norm(TDiv(m, 10), e + 1)
  ELSE IF Abs(m) * 10 < Mant THEN Norm(m * 10, e - 1)
  ELSE [m |-> m, e |-> e]

RECURSIVE Pow10(_)
Pow10(n) == IF n = 0 THEN 1 ELSE 10 * Pow10(n - 1)

FZero == Norm(0, 0)
FOne == Norm(1, 0)
FNeg(a) == [m |-> -a.m, e |-> a.e]
FMul(a, b) == Norm(a.m * b.m, a.e + b.e)
FDiv(a, b) == Norm(TDiv(a.m * Mant, b.m), a.e - b.e - 4)

FAdd(a, b) ==
  IF a.m = 0 THEN b
  ELSE IF b.m = 0 THEN a
  ELSE IF a.e - b.e > 4 THEN a
  ELSE IF b.e - a.e > 4 THEN b
  ELSE IF a.e >= b.e THEN Norm(a.m * Pow10(a.e - b.e) + b.m, b.e)
  ELSE Norm(b.m * Pow10(b.e - a.e) + a.m, a.e)

FSub(a, b) == FAdd(a, FNeg(b))

\* a < b, exact on normalised numbers
FLt(a, b) ==
  IF a.m = 0 THEN b.m > 0
  ELSE IF b.m = 0 THEN a.m < 0
  ELSE IF (a.m < 0) # (b.m < 0) THEN a.m < 0
  ELSE IF a.e = b.e THEN a.m < b.m
  ELSE IF a.m > 0 THEN a.e < b.e
  ELSE a.e > b.e

\* Python's max(a, b): b only when b > a
FMax(a, b) == IF FLt(a, b) THEN b ELSE a

RECURSIVE FSum(_)
FSum(s) == IF s = <<>> THEN FZero ELSE FAdd(Head(s), FSum(Tail(s)))

Min(a, b) == IF a < b THEN a ELSE b

(***************************************************************************)
(* config.py                                                               *)
(***************************************************************************)
\* 30.48 cm, in 0.01 cm
ft_to_cm == 3048
wall_thickness == 2 * ft_to_cm
source_to_wall_distance == 6 * ft_to_cm
\* 30.0 cm
detector_diameter == Norm(30, 0)

\* the test-mode lists (test_mode = True overrides the full lists)
test_gamma_energies == <<10, 100, 500>>
test_channel_diameters == <<5, 50>>
test_detector_distances == <<30, 100>>
test_detector_angles == <<0, 15, 45>>

\* The lists the modules import from config.py (lines 35-38 replace the full
\* lists when test_mode is set).
gamma_energies == params.gamma_energies
channel_diameters == params.channel_diameters
detector_distances == params.detector_distances
detector_angles == params.detector_angles

\* The sweep is modelled over the first NumAngles angles at the first energy,
\* diameter and distance.
ModelledLists ==
  [gamma_energies |-> SubSeq(test_gamma_energies, 1, 1),
   channel_diameters |-> SubSeq(test_channel_diameters, 1, 1),
   detector_distances |-> SubSeq(test_detector_distances, 1, 1),
   detector_angles |-> SubSeq(test_detector_angles, 1, Min(NumAngles, 3))]

(***************************************************************************)
(* Library functions, tabulated to four digits at the arguments the        *)
(* modelled configurations produce.                                        *)
(***************************************************************************)
\* math.pi
Pi == Norm(3141, -3)

\* np.cos(np.radians(deg))
CosDeg(deg) ==
  CASE deg = 0 -> Norm(1, 0)
    [] deg = 15 -> Norm(9659, -4)
    [] deg = 45 -> Norm(7071, -4)

\* np.sin(np.radians(deg))
SinDeg(deg) ==
  CASE deg = 0 -> Norm(0, 0)
    [] deg = 15 -> Norm(2588, -4)
    [] deg = 45 -> Norm(7071, -4)

\* np.exp(x) for the exponents -atten_coeff * path_length of the model
Exp(x) ==
  CASE x = Norm(-2738, -3) -> Norm(6469, -5)
    [] x = Norm(-3438, -3) -> Norm(3213, -5)
    [] x = Norm(-8214, -4) -> Norm(4398, -4)
    [] x = Norm(-1031, -3) -> Norm(3566, -4)
    [] x = Norm(-5476, -4) -> Norm(5783, -4)
    [] x = Norm(-6876, -4) -> Norm(5028, -4)

(***************************************************************************)
(* geometry.py                                                             *)
(***************************************************************************)
\* 2 * pi * (1 - cos(atan(channel_radius / source_to_wall_distance))); the
\* difference 1 - cos(theta) is about 1e-8 and needs the full double
\* precision, so the value is tabulated per channel radius (0.01 cm).
calculate_solid_angle(s2w, channel_radius) ==
  CASE channel_radius = FZero -> FZero
    [] channel_radius = Norm(25, -3) -> Norm(5871, -11)
    [] channel_radius = Norm(25, -2) -> Norm(5871, -9)

\* the detector position create_geometry returns
create_geometry(channel_diameter, detector_distance, detector_angle) ==
  [detector_x |-> FAdd(Norm(source_to_wall_distance + wall_thickness, -2),
                       FMul(Norm(detector_distance, 0), CosDeg(detector_angle))),
   detector_y |-> FMul(Norm(detector_distance, 0), SinDeg(detector_angle))]

(***************************************************************************)
(* dose.py                                                                 *)
(***************************************************************************)
\* NCRP-38/ANS-6.1.1-1977 table: energies in 0.01 MeV, factors in 1e-9
energies ==
  <<1, 3, 5, 7, 10, 15, 20, 25, 30, 35, 40, 45,
    50, 55, 60, 65, 70, 80, 100, 140, 180, 220, 260, 280, 325,
    375, 425, 475, 500, 525, 575, 625, 675, 750, 900, 1100, 1300, 1500>>

factors ==
  <<3960, 582, 290, 258, 283, 379, 501, 631,
    759, 878, 985, 1080, 1170, 1270, 1360, 1440,
    1520, 1680, 1980, 2510, 2990, 3420, 3820, 4010,
    4410, 4830, 5230, 5600, 5800, 6010, 6370, 6740,
    7110, 7660, 8770, 10300, 11800, 13300>>

Factor(i) == Norm(factors[i], -9)

get_flux_to_dose_factor(energy) ==
  IF energy <= energies[1] THEN Factor(1)
  ELSE IF energy >= energies[Len(energies)] THEN Factor(Len(energies))
  ELSE LET i == CHOOSE j \in 1..(Len(energies) - 1) :
                  /\ energies[j] <= energy /\ energy <= energies[j + 1]
                  /\ \A k \in 1..(j - 1) :
                       ~(energies[k] <= energy /\ energy <= energies[k + 1])
           fraction == FDiv(Norm(energy - energies[i], -2),
                            Norm(energies[i + 1] - energies[i], -2))
       IN FAdd(Factor(i), FMul(fraction, FSub(Factor(i + 1), Factor(i))))

\* ---- get_flux_to_dose_factor in binary64 -----------------------------------
\* The function's result is compared for exactness below, so the factors are
\* also kept as the doubles the literals of lines 20-24 denote.  Every factor
\* lies in [2^-22, 2^-16), so each double, each difference and each sum of two
\* of them is a whole number of units of 2^-74.  A magnitude below 2^59 units
\* is held in two limbs, hi * 2^29 + lo, with a sign.

Pow2(n) == 2 ^ n

B64(neg, hi, lo) == [neg |-> neg, hi |-> hi, lo |-> lo]

\* dose.py 20-24: the doubles of the factor literals, high limbs
factor_hi ==
  <<139330113, 20477304, 10203467, 9077567, 9957177, 13334877,
    17627370, 22201338, 26704938, 30891878, 34656606, 37999121,
    41165715, 44684152, 47850746, 50665495, 53480245, 59109745,
    69665056, 88312773, 105201272, 120330552, 134404301, 141089332,
    155163080, 169940517, 184014266, 197032483, 204069358, 211458076,
    224124450, 237142667, 250160885, 269512290, 308566943, 362399032,
    415175590, 467952148>>

\* dose.py 20-24: the doubles of the factor literals, low limbs
factor_lo ==
  <<253282128, 298339286, 486276884, 536290370, 161673014, 11632558,
    223609330, 423082728, 223028786, 372585458, 272461732, 459528516,
    184647860, 296791172, 21910516, 433747716, 308714004, 58646576,
    395076520, 506252264, 292920896, 291953320, 203655664, 40918320,
    489491584, 101500048, 13202384, 374445552, 61861280, 136300960,
    110520160, 471763328, 296135584, 107617440, 117605152, 276472192,
    348009184, 419546144>>

\* factors[i] as a double
FactorDouble(i) == B64(FALSE, factor_hi[i], factor_lo[i])

MagLess(a, b) == a.hi < b.hi \/ (a.hi = b.hi /\ a.lo < b.lo)

MagAdd(a, b) ==
  LET lo == a.lo + b.lo
  IN  [hi |-> a.hi + b.hi + (lo \div Pow2(29)), lo |-> lo % Pow2(29)]

\* a - b for MagLess(b, a) or equal magnitudes
MagSub(a, b) ==
  LET lo == a.lo - b.lo
  IN  IF lo < 0 THEN [hi |-> a.hi - b.hi - 1, lo |-> lo + Pow2(29)]
      ELSE [hi |-> a.hi - b.hi, lo |-> lo]

\* the exact sum of two signed magnitudes
ExactAdd(a, b) ==
  IF a.neg = b.neg
  THEN LET m == MagAdd(a, b) IN B64(a.neg, m.hi, m.lo)
  ELSE IF MagLess(a, b)
  THEN LET m == MagSub(b, a) IN B64(b.neg, m.hi, m.lo)
  ELSE LET m == MagSub(a, b)
       IN  B64(a.neg /\ (m.hi # 0 \/ m.lo # 0), m.hi, m.lo)

Bits(n) == CHOOSE k \in 0..30 : (k = 0 \/ Pow2(k - 1) <= n) /\ n < Pow2(k)

BitLength(x) == IF x.hi > 0 THEN 29 + Bits(x.hi) ELSE Bits(x.lo)

\* round to nearest, ties to even, at 53 significant bits
RoundToDouble(x) ==
  LET k == BitLength(x) - 53
  IN  IF k <= 0 THEN x
      ELSE LET r    == x.lo % Pow2(k)
               down == [hi |-> x.hi, lo |-> x.lo - r]
               odd  == (x.lo \div Pow2(k)) % 2 = 1
               up   == 2 * r > Pow2(k) \/ (2 * r = Pow2(k) /\ odd)
               m    == IF up THEN MagAdd(down, [hi |-> 0, lo |-> Pow2(k)])
                       ELSE down
           IN  B64(x.neg, m.hi, m.lo)

DAdd(a, b) == RoundToDouble(ExactAdd(a, b))

DSub(a, b) == DAdd(a, B64(~b.neg /\ (b.hi # 0 \/ b.lo # 0), b.hi, b.lo))

\* energies[i] in keV
NodeEnergy(i) == 10 * energies[i]

\* dose.py 26-35 in binary64, for an energy in keV that is at or outside the
\* ends of the table or at one of its nodes.  At a node the first interval
\* that brackets the energy has it as its upper end: the two differences of
\* line 34 have the same operands, their quotient is 1.0, and the product of
\* 1.0 and a double is that double.
flux_to_dose_factor_binary64(energy) ==
  IF energy <= NodeEnergy(1) THEN FactorDouble(1)
  ELSE IF energy >= NodeEnergy(Len(energies)) THEN FactorDouble(Len(energies))
  ELSE LET i == CHOOSE j \in 1..(Len(energies) - 1) :
                  /\ NodeEnergy(j) <= energy /\ energy <= NodeEnergy(j + 1)
                  /\ \A k \in 1..(j - 1) :
                       ~(NodeEnergy(k) <= energy /\ energy <= NodeEnergy(k + 1))
           difference == DSub(FactorDouble(i + 1), FactorDouble(i))
       IN  DAdd(FactorDouble(i), difference)

estimate_dose_from_flux(energy, total_flux) ==
  FMul(total_flux, get_flux_to_dose_factor(energy))

\* the air attenuation coefficient (cm^-1) by energy band
atten_coeff(energy) ==
  IF energy <= 10 THEN Norm(1, -2)
  ELSE IF energy <= 50 THEN Norm(5, -3)
  ELSE IF energy <= 100 THEN Norm(3, -3)
  ELSE Norm(2, -3)

estimate_physics_based_dose(energy, channel_diameter, detector_distance, detector_angle, path_length) ==
  LET E == Norm(energy, -2)
      cd == Norm(channel_diameter, -2)
      solid_angle == calculate_solid_angle(Norm(source_to_wall_distance, -2),
                                           FDiv(cd, Norm(2, 0)))
      source_strength == Norm(1, 12)
      attenuation == Exp(FMul(FNeg(atten_coeff(energy)), path_length))
      spreading == FDiv(FOne, FMul(path_length, path_length))
      angle_effect == CosDeg(Min(detector_angle, 80))
      half == FDiv(detector_diameter, Norm(2, 0))
      detector_area == FMul(Pi, FMul(half, half))
      product == FMul(FMul(FMul(FMul(FMul(source_strength, solid_angle),
                   attenuation), spreading), angle_effect), detector_area)
      estimated_flux == FMax(product, Norm(1, -5))
      dose_factor == get_flux_to_dose_factor(energy)
      dose == FMul(FMul(estimated_flux, dose_factor), FMul(E, E))
      min_dose == FDiv(FMul(FMul(Norm(1, -7), E), FDiv(cd, Norm(5, -2))),
                       FAdd(FOne, FDiv(Norm(detector_angle, 0), Norm(10, 0))))
  IN FMax(dose, min_dose)

(***************************************************************************)
(* JSON values and the ResultStore.  A Python dict keeps insertion order,  *)
(* and json.dump / json.load keep it too, so a store is a sequence of      *)
(* [k, v] pairs.  A value is a dict (a record) or null.                    *)
(***************************************************************************)
JDict(r) == [t |-> "dict", d |-> r]
JNull == [t |-> "null", d |-> <<>>]

EmptyStore == <<>>
Keys(s) == {s[i].k : i \in DOMAIN s}
Has(s, k) == \E i \in DOMAIN s : s[i].k = k
Get(s, k) == s[CHOOSE i \in DOMAIN s : s[i].k = k].v
\* a variant of the assignment that starts the dict afresh
PutAfresh(s, k, v) == <<[k |-> k, v |-> v]>>

\* d[k] = v: an existing key keeps its place, a new key goes last
Put(s, k, v) ==
  IF Has(s, k) THEN [i \in DOMAIN s |-> IF s[i].k = k THEN [k |-> k, v |-> v] ELSE s[i]]
  ELSE Append(s, [k |-> k, v |-> v])

\* 'dose_rem_per_hr' in v, for a dict v
HasDose(v) == v.t = "dict" /\ "dose_rem_per_hr" \in DOMAIN v.d

\* a file: absent, complete JSON text, or the truncated text that open(.., 'w')
\* leaves until json.dump has finished
FileAbsent == [state |-> "absent", data |-> EmptyStore]
FilePartial == [state |-> "partial", data |-> EmptyStore]
\* a variant of the dump that appends: it writes the newest entry only
json_dump_newest(store) ==
  [state |-> "ok",
   data |-> IF store = EmptyStore THEN EmptyStore ELSE <<store[Len(store)]>>]

json_dump(store) == [state |-> "ok", data |-> store]

(***************************************************************************)
(* The sweep's configurations, in loop order (setup.py lines 67-72).       *)
(***************************************************************************)
total_simulations ==
  Len(gamma_energies) * Len(channel_diameters) * Len(detector_distances)
    * Len(detector_angles)

\* a variant of the loop nest with the angle outermost and the energy innermost
configs_angle_outermost ==
  LET ne == Len(gamma_energies)
      nd == Len(channel_diameters)
      ns == Len(detector_distances)
  IN [i \in 1..total_simulations |->
        LET j == i - 1
        IN <<gamma_energies[(j % ne) + 1],
             channel_diameters[((j \div ne) % nd) + 1],
             detector_distances[((j \div (ne * nd)) % ns) + 1],
             detector_angles[(j \div (ne * nd * ns)) + 1]>>]

configs ==
  LET nd == Len(channel_diameters)
      ns == Len(detector_distances)
      na == Len(detector_angles)
  IN [i \in 1..total_simulations |->
        LET j == i - 1
        IN <<gamma_energies[(j \div (nd * ns * na)) + 1],
             channel_diameters[((j \div (ns * na)) % nd) + 1],
             detector_distances[((j \div na) % ns) + 1],
             detector_angles[(j % na) + 1]>>]

\* f"E{energy}_D{channel_diameter}_dist{detector_distance}_ang{detector_angle}"
\* as the sequence of its characters, each number's text being one token that
\* holds no underscore
Key(c) ==
  <<"E", ToString(c[1]), "_", "D", ToString(c[2]), "_", "d", "i", "s", "t",
    ToString(c[3]), "_", "a", "n", "g", ToString(c[4])>>

(***************************************************************************)
(* What the transport engine can leave in the statepoint: a detector flux  *)
(* spectrum (two energy bins here) and a mesh field.                       *)
(***************************************************************************)
EngineOutput(s) == [spectrum |-> s, mesh_result |-> <<<<FSum(s)>>>>]

\* in the sweep: a run with usable statistics
Spectra ==
  { <<Norm(1, -3), Norm(1, -3)>> }       \* flux 2e-3

EngineOutputs == {EngineOutput(s) : s \in Spectra}

\* for run_simulation on its own: fluxes on both sides of both thresholds
DoseSpectra ==
  Spectra \cup
  { <<Norm(0, 0), Norm(0, 0)>>,          \* flux 0: no counts
    <<Norm(9, -7), Norm(0, 0)>>,         \* flux 9e-7, below 1e-6
    <<Norm(1, -6), Norm(0, 0)>>,         \* flux 1e-6 exactly
    <<Norm(5, -6), Norm(5, -6)>>,        \* flux 1e-5, dose below 1e-10
    <<Norm(3533, -7), Norm(0, 0)>>,      \* dose 9.998e-11 at 0.1 MeV
    <<Norm(3534, -7), Norm(0, 0)>> }     \* dose 1.000e-10 at 0.1 MeV

(***************************************************************************)
(* simulation.py run_simulation: the pure parts.                           *)
(***************************************************************************)
\* lines 113 and 149
path_length(detector_distance) ==
  Norm(source_to_wall_distance + wall_thickness + detector_distance * 100, -2)

\* a variant without the statistics test: the Monte Carlo dose is always kept
select_dose_always_monte_carlo(c, total_flux) ==
  FMul(total_flux, get_flux_to_dose_factor(c[1]))

\* a variant of the statistics test with non-strict thresholds
select_dose_nonstrict(c, total_flux) ==
  LET dose_rem_per_hr == FMul(total_flux, get_flux_to_dose_factor(c[1]))
  IN IF ~FLt(Norm(1, -6), total_flux) \/ ~FLt(Norm(1, -10), dose_rem_per_hr)
     THEN estimate_physics_based_dose(c[1], c[2], c[3], c[4], path_length(c[3]))
     ELSE dose_rem_per_hr

\* lines 110-116: the dose kept after the statistics test
select_dose(c, total_flux) ==
  LET dose_rem_per_hr == FMul(total_flux, get_flux_to_dose_factor(c[1]))
  IN IF FLt(total_flux, Norm(1, -6)) \/ FLt(dose_rem_per_hr, Norm(1, -10))
     THEN estimate_physics_based_dose(c[1], c[2], c[3], c[4], path_length(c[3]))
     ELSE dose_rem_per_hr

\* lines 98-130: the results dict of the success path
success_results(c, out) ==
  LET g == create_geometry(c[2], c[3], c[4])
      total_flux == FSum(out.spectrum)
  IN [energy |-> c[1], channel_diameter |-> c[2], detector_distance |-> c[3],
      detector_angle |-> c[4], detector_x |-> g.detector_x,
      detector_y |-> g.detector_y, total_flux |-> total_flux,
      dose_rem_per_hr |-> select_dose(c, total_flux),
      spectrum |-> out.spectrum, mesh_result |-> out.mesh_result]

\* a variant of the handler's dict that keeps a total_flux field
fallback_results_with_flux(c) ==
  LET g == create_geometry(c[2], c[3], c[4])
  IN [energy |-> c[1], channel_diameter |-> c[2], detector_distance |-> c[3],
      detector_angle |-> c[4], detector_x |-> g.detector_x,
      detector_y |-> g.detector_y, total_flux |-> FZero,
      dose_rem_per_hr |-> estimate_physics_based_dose(c[1], c[2], c[3], c[4],
                                                      path_length(c[3]))]

\* lines 148-163: the dict the except handler returns
fallback_results(c) ==
  LET g == create_geometry(c[2], c[3], c[4])
  IN [energy |-> c[1], channel_diameter |-> c[2], detector_distance |-> c[3],
      detector_angle |-> c[4], detector_x |-> g.detector_x,
      detector_y |-> g.detector_y,
      dose_rem_per_hr |-> estimate_physics_based_dose(c[1], c[2], c[3], c[4],
                                                      path_length(c[3]))]

(***************************************************************************)
(* State.                                                                  *)
(***************************************************************************)
NoResult == [none |-> TRUE]
NoCall ==
  [exit |-> "none", exc |-> "none", entry_cwd |-> "orig", key |-> <<>>,
   args |-> <<>>]
NoInterrupt == [at |-> "none", key |-> <<>>]
NotEnded == [kind |-> "running", saved |-> FALSE]
NoPersist == [state |-> "none", data |-> EmptyStore]
NoPrev == [normal |-> FALSE, inflight |-> <<>>]
NoPost == [attempted |-> {}, critical |-> <<>>]

\* positions inside run_simulation
RsPcs ==
  {"rs_build", "rs_export", "rs_run", "rs_extract", "rs_visualize",
   "rs_except"}

\* positions inside the try statement of setup.py lines 81-100
TryPcs == RsPcs \cup {"store", "persist_open", "persist_dump", "count"}

\* what the sweep is doing at a position
Phase(p) ==
  IF p \in RsPcs THEN "running"
  ELSE IF p \in {"store", "persist_open", "persist_dump", "count"} THEN "writing"
  ELSE IF p \in {"loop", "except", "progress"} THEN "between"
  ELSE IF p \in {"ki_open", "ki_dump", "ki_exit"} THEN "handler"
  ELSE p

cur_config == configs[idx]
key == Key(cur_config)

(***************************************************************************)
(* The checkpoint a first launch may find: none, an unreadable one, or a   *)
(* JSON object of up to MaxLoaded entries, each a result of an earlier     *)
(* sweep, a dict without a dose, or null.                                  *)
(***************************************************************************)
LoadableValues(c) ==
  {JDict(fallback_results(c)),
   JDict([energy |-> c[1], channel_diameter |-> c[2],
          detector_distance |-> c[3], detector_angle |-> c[4]]),
   JNull}

RECURSIVE StoresOver(_, _)
\* the stores holding n entries, for configurations from position i on
StoresOver(i, n) ==
  IF n = 0 THEN {EmptyStore}
  ELSE IF i > total_simulations THEN {}
  ELSE StoresOver(i + 1, n)
       \cup { <<[k |-> Key(configs[i]), v |-> v]>> \o t :
                v \in LoadableValues(configs[i]), t \in StoresOver(i + 1, n - 1) }

InitialFiles ==
  {FileAbsent, FilePartial}
    \cup {json_dump(s) : s \in UNION {StoresOver(1, n) : n \in 1..MaxLoaded}}

Init ==
  /\ params = ModelledLists
  /\ pc = "load"
  /\ status = "running"
  /\ runs = 1
  /\ cwd = "orig"
  /\ ckpt \in InitialFiles
  /\ final_file = FileAbsent
  /\ idx = 1
  /\ all_results = EmptyStore
  /\ completed_simulations = 0
  /\ failed_simulations = 0
  /\ result = NoResult
  /\ rs = NoCall
  /\ ki = NoInterrupt
  /\ loaded = EmptyStore
  /\ calls = {}
  /\ returned = EmptyStore
  /\ how = NotEnded
  /\ durable = NoPersist
  /\ prev = NoPrev
  /\ post = NoPost

(***************************************************************************)
(* setup.py: how an exception leaves main.  The __main__ guard (lines      *)
(* 209-216) catches KeyboardInterrupt and Exception, prints, and falls off *)
(* the end of the script: exit status 0.  sys.exit(1) raises SystemExit,   *)
(* which it does not catch: exit status 1.                                 *)
(***************************************************************************)
\* The process ends: its memory is gone, the files stay.
Ends(kind, st, interrupt) ==
  /\ pc' = "exited"
  /\ status' = st
  /\ how' = [kind |-> kind, saved |-> ckpt = json_dump(all_results)]
  /\ ki' = interrupt
  /\ all_results' = EmptyStore
  /\ idx' = 1
  /\ completed_simulations' = 0
  /\ failed_simulations' = 0
  /\ result' = NoResult
  /\ rs' = NoCall
  /\ loaded' = EmptyStore
  /\ calls' = {}
  /\ returned' = EmptyStore
  /\ post' = NoPost
  /\ UNCHANGED <<runs, cwd, ckpt, final_file, durable, prev, params>>

\* a variant of the load that lets the error of an unreadable checkpoint
\* leave main
LoadOrRaise ==
  /\ status = "running" /\ pc = "load"
  /\ IF ckpt.state = "partial"
     THEN Ends("exception", "exit0", ki)
     ELSE /\ all_results' = ckpt.data
          /\ loaded' = all_results'
          /\ completed_simulations' = 0
          /\ failed_simulations' = 0
          /\ idx' = 1
          /\ pc' = "loop"
          /\ UNCHANGED <<status, runs, cwd, ckpt, final_file, result, rs, ki,
                         calls, returned, how, durable, prev, post, params>>

\* lines 41-63: load the checkpoint, zero the counters
Load ==
  /\ status = "running" /\ pc = "load"
  /\ all_results' = IF ckpt.state = "ok" THEN ckpt.data ELSE EmptyStore
  /\ loaded' = all_results'
  /\ completed_simulations' = 0
  /\ failed_simulations' = 0
  /\ idx' = 1
  /\ pc' = "loop"
  /\ UNCHANGED <<status, runs, cwd, ckpt, final_file, result, rs, ki, calls,
                 returned, how, durable, prev, post, params>>

\* a variant of the test of line 75 that skips the entries without a dose
skip_test_inverted(store, k) == Has(store, k) /\ ~HasDose(Get(store, k))

\* line 75: key in all_results and 'dose_rem_per_hr' in all_results[key]
skip_test(store, k) == Has(store, k) /\ HasDose(Get(store, k))

\* line 75 raises TypeError when the entry is not a container
skip_test_raises(store, k) == Has(store, k) /\ Get(store, k).t = "null"

\* lines 67-70 exhausted: on to line 122
LoopEnd ==
  /\ status = "running" /\ pc = "loop"
  /\ idx > total_simulations
  /\ pc' = "final_save"
  /\ UNCHANGED <<status, runs, cwd, ckpt, final_file, idx, all_results,
                 completed_simulations, failed_simulations, result, rs, ki,
                 loaded, calls, returned, how, durable, prev, post, params>>

\* a variant of the skip that goes on to the next configuration without
\* counting this one
SkipUncounted ==
  /\ status = "running" /\ pc = "loop"
  /\ idx <= total_simulations
  /\ ~skip_test_raises(all_results, key)
  /\ skip_test(all_results, key)
  /\ idx' = idx + 1
  /\ UNCHANGED <<pc, status, runs, cwd, ckpt, final_file, all_results,
                 completed_simulations, failed_simulations, result, rs, ki,
                 loaded, calls, returned, how, durable, prev, post, params>>

\* lines 71-78: the configuration is already in the store
Skip ==
  /\ status = "running" /\ pc = "loop"
  /\ idx <= total_simulations
  /\ ~skip_test_raises(all_results, key)
  /\ skip_test(all_results, key)
  /\ completed_simulations' = completed_simulations + 1
  /\ idx' = idx + 1
  /\ UNCHANGED <<pc, status, runs, cwd, ckpt, final_file, all_results,
                 failed_simulations, result, rs, ki, loaded, calls, returned,
                 how, durable, prev, post, params>>

\* line 75 raises outside the try statement: the exception leaves main
SkipTestRaises ==
  /\ status = "running" /\ pc = "loop"
  /\ idx <= total_simulations
  /\ skip_test_raises(all_results, key)
  /\ Ends("exception", "exit0", ki)

\* lines 81-83: enter the try statement and call run_simulation
Call ==
  /\ status = "running" /\ pc = "loop"
  /\ idx <= total_simulations
  /\ ~skip_test_raises(all_results, key)
  /\ ~skip_test(all_results, key)
  /\ pc' = "rs_build"
  /\ rs' = [exit |-> "active", exc |-> "none", entry_cwd |-> cwd, key |-> key,
            args |-> cur_config]
  /\ calls' = calls \cup {key}
  /\ result' = NoResult
  /\ UNCHANGED <<status, runs, cwd, ckpt, final_file, idx, all_results,
                 completed_simulations, failed_simulations, ki, loaded,
                 returned, how, durable, prev, post, params>>

(***************************************************************************)
(* simulation.py run_simulation, step by step.  Every call into the        *)
(* engine, the file system or the plotting code may raise.                 *)
(***************************************************************************)
RsFrame ==
  UNCHANGED <<status, runs, ckpt, final_file, idx, all_results,
              completed_simulations, failed_simulations, ki, loaded, calls,
              how, durable, prev, post, params>>

\* lines 31-62 complete: materials, geometry, source, tallies, settings, run dir
RsBuild ==
  /\ status = "running" /\ pc = "rs_build"
  /\ pc' = "rs_export"
  /\ UNCHANGED <<cwd, result, rs, returned, params>>
  /\ RsFrame

\* lines 31-62 raise: they stand before the try of line 67, so the exception
\* leaves run_simulation and reaches main's handler of line 107
RsBuildRaises ==
  /\ status = "running" /\ pc = "rs_build"
  /\ rs' = [rs EXCEPT !.exit = "raised", !.exc = "build"]
  /\ pc' = "except"
  /\ UNCHANGED <<cwd, result, returned, params>>
  /\ RsFrame

\* where an exception raised inside the try of line 67 goes: line 141
RsCaught(stage) ==
  /\ rs' = [rs EXCEPT !.exc = stage]
  /\ pc' = "rs_except"
  /\ UNCHANGED <<cwd, result, returned, params>>
  /\ RsFrame

\* lines 68-78: export the model, move the XML files, os.chdir(run_dir)
RsExport ==
  /\ status = "running" /\ pc = "rs_export"
  /\ cwd' = "run"
  /\ pc' = "rs_run"
  /\ UNCHANGED <<result, rs, returned, params>>
  /\ RsFrame

\* the export or a move raises, before the chdir
RsExportRaises ==
  /\ status = "running" /\ pc = "rs_export"
  /\ RsCaught("export")

\* lines 81-84: openmc.run(), then os.chdir(original_dir)
RsRun ==
  /\ status = "running" /\ pc = "rs_run"
  /\ cwd' = rs.entry_cwd
  /\ pc' = "rs_extract"
  /\ UNCHANGED <<result, rs, returned, params>>
  /\ RsFrame

\* the engine fails, inside the run directory
RsRunRaises ==
  /\ status = "running" /\ pc = "rs_run"
  /\ RsCaught("run")

\* lines 87-130: read the statepoint, convert flux to dose, build the dict
Extract(outputs) ==
  /\ \E out \in outputs : result' = success_results(rs.args, out)
  /\ pc' = "rs_visualize"
  /\ UNCHANGED <<cwd, rs, returned, params>>
  /\ RsFrame

RsExtract ==
  /\ status = "running" /\ pc = "rs_extract"
  /\ Extract(EngineOutputs)

\* the statepoint is missing or a tally cannot be read
RsExtractRaises ==
  /\ status = "running" /\ pc = "rs_extract"
  /\ RsCaught("extract")

\* lines 132-139: the three plots, then return results
RsVisualize ==
  /\ status = "running" /\ pc = "rs_visualize"
  /\ rs' = [rs EXCEPT !.exit = "returned"]
  /\ returned' = Put(returned, rs.key, result)
  /\ pc' = "store"
  /\ UNCHANGED <<cwd, result, params>>
  /\ RsFrame

RsVisualizeRaises ==
  /\ status = "running" /\ pc = "rs_visualize"
  /\ RsCaught("visualize")

\* lines 141-163: the handler restores the working directory and returns the
\* minimal dict
RsExcept ==
  /\ status = "running" /\ pc = "rs_except"
  /\ cwd' = rs.entry_cwd
  /\ result' = fallback_results(rs.args)
  /\ rs' = [rs EXCEPT !.exit = "returned"]
  /\ returned' = Put(returned, rs.key, result')
  /\ pc' = "store"
  /\ RsFrame

RunSimulation ==
  \/ RsBuild \/ RsBuildRaises
  \/ RsExport \/ RsExportRaises
  \/ RsRun \/ RsRunRaises
  \/ RsExtract \/ RsExtractRaises
  \/ RsVisualize \/ RsVisualizeRaises
  \/ RsExcept

(***************************************************************************)
(* setup.py main: the rest of the loop body and the end of the sweep.      *)
(***************************************************************************)
MainFrame ==
  UNCHANGED <<status, runs, cwd, final_file, idx, result, rs, ki, loaded,
              calls, returned, how, prev, post, params>>

\* line 86: all_results[key] = result
Store ==
  /\ status = "running" /\ pc = "store"
  /\ all_results' = Put(all_results, key, JDict(result))
  /\ pc' = "persist_open"
  /\ UNCHANGED <<ckpt, durable, completed_simulations, failed_simulations,
                 params>>
  /\ MainFrame

\* line 89: open(..., 'w') truncates the checkpoint
PersistOpen ==
  /\ status = "running" /\ pc = "persist_open"
  /\ durable' = ckpt
  /\ ckpt' = FilePartial
  /\ pc' = "persist_dump"
  /\ UNCHANGED <<all_results, completed_simulations, failed_simulations, params>>
  /\ MainFrame

\* line 90: json.dump(all_results, f) and the close of the with block
PersistDump ==
  /\ status = "running" /\ pc = "persist_dump"
  /\ ckpt' = json_dump(all_results)
  /\ durable' = NoPersist
  /\ pc' = "count"
  /\ UNCHANGED <<all_results, completed_simulations, failed_simulations, params>>
  /\ MainFrame

\* lines 92-100
Count ==
  /\ status = "running" /\ pc = "count"
  /\ completed_simulations' = completed_simulations + 1
  /\ pc' = "progress"
  /\ UNCHANGED <<ckpt, durable, all_results, failed_simulations, params>>
  /\ MainFrame

\* lines 107-110: except Exception
ExceptException ==
  /\ status = "running" /\ pc = "except"
  /\ failed_simulations' = failed_simulations + 1
  /\ pc' = "progress"
  /\ UNCHANGED <<ckpt, durable, all_results, completed_simulations, params>>
  /\ MainFrame

\* lines 112-120, and the loops' step to the next configuration
Progress ==
  /\ status = "running" /\ pc = "progress"
  /\ idx' = idx + 1
  /\ pc' = "loop"
  /\ UNCHANGED <<status, runs, cwd, ckpt, final_file, all_results,
                 completed_simulations, failed_simulations, result, rs, ki,
                 loaded, calls, returned, how, durable, prev, post, params>>

\* lines 102-104: except KeyboardInterrupt opens the checkpoint by its relative
\* path; from inside the run directory results/ does not exist and open raises
\* FileNotFoundError, which leaves main
KiOpen ==
  /\ status = "running" /\ pc = "ki_open"
  /\ cwd = "orig"
  /\ durable' = ckpt
  /\ ckpt' = FilePartial
  /\ pc' = "ki_dump"
  /\ UNCHANGED <<all_results, completed_simulations, failed_simulations, params>>
  /\ MainFrame

KiOpenRaises ==
  /\ status = "running" /\ pc = "ki_open"
  /\ cwd # "orig"
  /\ Ends("exception", "exit0", ki)

\* line 105
KiDump ==
  /\ status = "running" /\ pc = "ki_dump"
  /\ ckpt' = json_dump(all_results)
  /\ durable' = NoPersist
  /\ pc' = "ki_exit"
  /\ UNCHANGED <<all_results, completed_simulations, failed_simulations, params>>
  /\ MainFrame

\* line 106: sys.exit(1)
KiExit ==
  /\ status = "running" /\ pc = "ki_exit"
  /\ Ends("sys_exit", "exit1", ki)

\* lines 122-129: final_results.json, the summary line, and the test that
\* there is anything to analyse
FinalSave ==
  /\ status = "running" /\ pc = "final_save"
  /\ final_file' = json_dump(all_results)
  /\ pc' = IF Len(all_results) > 0 THEN "post_dose_angle" ELSE "post_end"
  /\ UNCHANGED <<status, runs, cwd, ckpt, idx, all_results,
                 completed_simulations, failed_simulations, result, rs, ki,
                 loaded, calls, returned, how, durable, prev, post, params>>

(***************************************************************************)
(* setup.py lines 129-207: the analysis phase.  An artifact is a plot or   *)
(* the report; a call that produces one may raise.  Where the call stands  *)
(* in a try of its own the except clause only prints, and the step is the  *)
(* same whether the call raised or not.                                    *)
(***************************************************************************)
Art(kind, energy, diameter, angle) ==
  [kind |-> kind, energy |-> energy, diameter |-> diameter, angle |-> angle]

PostFrame ==
  UNCHANGED <<status, runs, cwd, ckpt, final_file, idx, all_results,
              completed_simulations, failed_simulations, result, rs, ki,
              loaded, calls, returned, how, durable, prev, params>>

Attempt(arts, next) ==
  /\ post' = [post EXCEPT !.attempted = @ \cup arts]
  /\ pc' = next
  /\ PostFrame

\* lines 131-134, the first n energies of the loop
DoseAngleArtifacts(n) ==
  {Art("dose_vs_angle", gamma_energies[i], -1, -1) : i \in 1..n}

\* lines 131-134: every call returns
PostDoseAngle ==
  /\ status = "running" /\ pc = "post_dose_angle"
  /\ Attempt(DoseAngleArtifacts(Len(gamma_energies)), "post_comprehensive")

\* lines 131-134: the n-th call raises; the only try around it is the outer
\* one of line 130, whose handler is at lines 182-184
PostDoseAngleRaises ==
  /\ status = "running" /\ pc = "post_dose_angle"
  /\ \E n \in DOMAIN gamma_energies : Attempt(DoseAngleArtifacts(n), "rank")

\* lines 136-142: each call in a try of its own
PostComprehensive ==
  /\ status = "running" /\ pc = "post_comprehensive"
  /\ Attempt({Art("comprehensive_angle", gamma_energies[i], -1, -1) :
                i \in DOMAIN gamma_energies},
             "post_polar")

\* lines 144-155: one try per energy around the combined heatmap and the loop
\* over the diameters; n[i] is how many of the per-diameter calls of energy i
\* are reached
PostPolar ==
  /\ status = "running" /\ pc = "post_polar"
  /\ \E n \in [DOMAIN gamma_energies -> 0..Len(channel_diameters)] :
       Attempt({Art("polar_heatmap", gamma_energies[i], -1, -1) :
                  i \in DOMAIN gamma_energies}
               \cup {Art("polar_heatmap", gamma_energies[ij[1]],
                         channel_diameters[ij[2]], -1) :
                       ij \in {ij \in (DOMAIN gamma_energies)
                                        \X (DOMAIN channel_diameters) :
                                 ij[2] <= n[ij[1]]}},
               "post_spectrum")

\* lines 157-162
PostSpectrum ==
  /\ status = "running" /\ pc = "post_spectrum"
  /\ Attempt({Art("spectrum", -1, -1, -1)}, "post_intensity")

\* lines 164-173: a plot for each energy, diameter and angle of 0, 15, 45 for
\* which the store has a key at some distance, each in a try of its own
IntensityArtifacts(store) ==
  {Art("spectrum_intensity", gamma_energies[x[1]], channel_diameters[x[2]],
       x[3]) :
     x \in {x \in (DOMAIN gamma_energies) \X (DOMAIN channel_diameters)
                     \X {0, 15, 45} :
             \E d \in DOMAIN detector_distances :
               Has(store, Key(<<gamma_energies[x[1]], channel_diameters[x[2]],
                                detector_distances[d], x[3]>>))}}

PostIntensity ==
  /\ status = "running" /\ pc = "post_intensity"
  /\ Attempt(IntensityArtifacts(all_results), "post_report")

\* lines 175-181
PostReport ==
  /\ status = "running" /\ pc = "post_report"
  /\ Attempt({Art("report", -1, -1, -1)}, "rank")

\* str.split('_')
RECURSIVE Split(_)
Split(str) ==
  IF \A i \in DOMAIN str : str[i] # "_" THEN <<str>>
  ELSE LET i == CHOOSE i \in DOMAIN str :
                  str[i] = "_" /\ \A j \in 1..(i - 1) : str[j] # "_"
       IN <<SubSeq(str, 1, i - 1)>> \o Split(SubSeq(str, i + 1, Len(str)))

\* str[n:]
Drop(str, n) == SubSeq(str, n + 1, Len(str))

\* a variant of the sort that puts a pair before the pairs of equal dose
RECURSIVE InsertBeforeEqual(_, _)
InsertBeforeEqual(sorted, x) ==
  IF sorted = <<>> THEN <<x>>
  ELSE IF ~FLt(x.dose, Head(sorted).dose) THEN <<x>> \o sorted
  ELSE <<Head(sorted)>> \o InsertBeforeEqual(Tail(sorted), x)

\* line 192, list.sort(key=dose, reverse=True), one pair at a time: the sort
\* is stable, so a pair goes behind every pair of an equal or larger dose
RECURSIVE InsertByDose(_, _)
InsertByDose(sorted, x) ==
  IF sorted = <<>> THEN <<x>>
  ELSE IF FLt(Head(sorted).dose, x.dose) THEN <<x>> \o sorted
  ELSE <<Head(sorted)>> \o InsertByDose(Tail(sorted), x)

RECURSIVE SortByDose(_)
SortByDose(pairs) ==
  IF pairs = <<>> THEN <<>>
  ELSE InsertByDose(SortByDose(SubSeq(pairs, 1, Len(pairs) - 1)),
                    pairs[Len(pairs)])

\* lines 187-203: the pairs (key, dose) of the entries with a dose, sorted, and
\* of the first five the fields cut out of the key, with the dose
critical_configs(store) ==
  LET with_dose == SelectSeq(store, LAMBDA e : HasDose(e.v))
      pairs == [i \in DOMAIN with_dose |->
                  [key |-> with_dose[i].k,
                   dose |-> with_dose[i].v.d.dose_rem_per_hr]]
      sorted == SortByDose(pairs)
  IN [i \in 1..Min(5, Len(sorted)) |->
        LET parts == Split(sorted[i].key)
        IN [energy |-> Drop(parts[1], 1), diameter |-> Drop(parts[2], 1),
            distance |-> Drop(parts[3], 4), angle |-> Drop(parts[4], 3),
            dose |-> sorted[i].dose]]

Rank ==
  /\ status = "running" /\ pc = "rank"
  /\ post' = [post EXCEPT !.critical = critical_configs(all_results)]
  /\ pc' = "post_end"
  /\ PostFrame

\* lines 205-207: main returns and the script ends
PostEnd ==
  /\ status = "running" /\ pc = "post_end"
  /\ Ends("normal", "exit0", ki)

PostProcess ==
  \/ PostDoseAngle \/ PostDoseAngleRaises \/ PostComprehensive \/ PostPolar
  \/ PostSpectrum \/ PostIntensity \/ PostReport \/ Rank \/ PostEnd

Sweep ==
  \/ Load \/ LoopEnd \/ Skip \/ SkipTestRaises \/ Call
  \/ Store \/ PersistOpen \/ PersistDump \/ Count \/ ExceptException
  \/ Progress \/ KiOpen \/ KiOpenRaises \/ KiDump \/ KiExit
  \/ FinalSave \/ PostProcess

(***************************************************************************)
(* The environment: Ctrl-C, a kill, and the next launch.                   *)
(***************************************************************************)
\* a variant of the interrupt in which run_simulation, on its way out, leaves
\* in the store what it had computed so far for its configuration
InterruptKeepsInFlight ==
  /\ status = "running" /\ pc \in TryPcs
  /\ pc' = "ki_open"
  /\ ki' = IF ki = NoInterrupt THEN [at |-> Phase(pc), key |-> key] ELSE ki
  /\ rs' = IF pc \in RsPcs THEN [rs EXCEPT !.exit = "interrupted"] ELSE rs
  /\ all_results' =
       IF pc \in RsPcs
       THEN Put(all_results, key, JDict(fallback_results(rs.args)))
       ELSE all_results
  /\ UNCHANGED <<status, runs, cwd, ckpt, final_file, idx,
                 completed_simulations, failed_simulations, result, loaded,
                 calls, returned, how, durable, prev, post, params>>

\* KeyboardInterrupt inside the try statement of lines 81-100 (run_simulation
\* included, which catches only Exception): handled at line 102
InterruptInTry ==
  /\ status = "running" /\ pc \in TryPcs
  /\ pc' = "ki_open"
  /\ ki' = IF ki = NoInterrupt THEN [at |-> Phase(pc), key |-> key] ELSE ki
  /\ rs' = IF pc \in RsPcs THEN [rs EXCEPT !.exit = "interrupted"] ELSE rs
  /\ UNCHANGED <<status, runs, cwd, ckpt, final_file, idx, all_results,
                 completed_simulations, failed_simulations, result, loaded,
                 calls, returned, how, durable, prev, post, params>>

\* KeyboardInterrupt anywhere else in main, the two handlers included: it
\* leaves main and is caught at line 212
InterruptOutsideTry ==
  /\ status = "running" /\ pc \notin TryPcs
  /\ Ends("interrupt", "exit0",
          IF ki = NoInterrupt
          THEN [at |-> Phase(pc),
                key |-> IF idx <= total_simulations THEN key ELSE <<>>]
          ELSE ki)

\* the process is killed or the machine goes down: it stops where it is, its
\* memory is gone, the files stay as they are
Crash ==
  /\ status = "running"
  /\ status' = "killed"
  /\ how' = [kind |-> "killed", saved |-> ckpt = json_dump(all_results)]
  /\ all_results' = EmptyStore
  /\ idx' = 1
  /\ completed_simulations' = 0
  /\ failed_simulations' = 0
  /\ result' = NoResult
  /\ rs' = NoCall
  /\ ki' = NoInterrupt
  /\ loaded' = EmptyStore
  /\ calls' = {}
  /\ returned' = EmptyStore
  /\ post' = NoPost
  /\ UNCHANGED <<pc, runs, cwd, ckpt, final_file, durable, prev, params>>

\* the program is started again in the same directory
Relaunch ==
  /\ status # "running"
  /\ runs < MaxRuns
  /\ runs' = runs + 1
  /\ prev' = [normal |-> (how.kind = "normal"),
              inflight |-> IF ki.at = "running" THEN ki.key ELSE <<>>]
  /\ durable' = NoPersist
  /\ pc' = "load"
  /\ status' = "running"
  /\ how' = NotEnded
  /\ cwd' = "orig"
  /\ idx' = 1
  /\ all_results' = EmptyStore
  /\ completed_simulations' = 0
  /\ failed_simulations' = 0
  /\ result' = NoResult
  /\ rs' = NoCall
  /\ ki' = NoInterrupt
  /\ loaded' = EmptyStore
  /\ calls' = {}
  /\ returned' = EmptyStore
  /\ post' = NoPost
  /\ UNCHANGED <<ckpt, final_file, params>>

Next ==
  \/ Sweep
  \/ RunSimulation
  \/ InterruptInTry
  \/ InterruptOutsideTry
  \/ Crash
  \/ Relaunch

Spec == Init /\ [][Next]_vars

(***************************************************************************)
(* run_simulation on its own, from the point where the engine has run:     *)
(* every test-mode configuration of config.py lines 35-38, every spectrum  *)
(* of DoseSpectra.                                                         *)
(***************************************************************************)
test_configs ==
  {<<test_gamma_energies[e], test_channel_diameters[d],
     test_detector_distances[s], test_detector_angles[a]>> :
     e \in DOMAIN test_gamma_energies, d \in DOMAIN test_channel_diameters,
     s \in DOMAIN test_detector_distances, a \in DOMAIN test_detector_angles}

InitDose ==
  /\ params = ModelledLists
  /\ pc = "rs_extract"
  /\ status = "running"
  /\ runs = 1
  /\ cwd = "orig"
  /\ ckpt = FileAbsent
  /\ final_file = FileAbsent
  /\ idx = 1
  /\ all_results = EmptyStore
  /\ completed_simulations = 0
  /\ failed_simulations = 0
  /\ result = NoResult
  /\ \E c \in test_configs :
       rs = [exit |-> "active", exc |-> "none", entry_cwd |-> "orig",
             key |-> Key(c), args |-> c]
  /\ ki = NoInterrupt
  /\ loaded = EmptyStore
  /\ calls = {rs.key}
  /\ returned = EmptyStore
  /\ how = NotEnded
  /\ durable = NoPersist
  /\ prev = NoPrev
  /\ post = NoPost

DoseExtract ==
  /\ status = "running" /\ pc = "rs_extract"
  /\ Extract({EngineOutput(s) : s \in DoseSpectra})

NextDose ==
  \/ DoseExtract
  \/ RsExtractRaises
  \/ RsVisualize
  \/ RsVisualizeRaises
  \/ RsExcept

SpecDose == InitDose /\ [][NextDose]_vars

(***************************************************************************)
(* One launch of the sweep that nobody interrupts or kills, with every     *)
(* spectrum of DoseSpectra as a possible outcome of each engine run.       *)
(***************************************************************************)
NextQuiet ==
  \/ Load \/ LoopEnd \/ Skip \/ SkipTestRaises \/ Call
  \/ RsBuild \/ RsBuildRaises
  \/ RsExport \/ RsExportRaises
  \/ RsRun \/ RsRunRaises
  \/ DoseExtract \/ RsExtractRaises
  \/ RsVisualize \/ RsVisualizeRaises
  \/ RsExcept
  \/ Store \/ PersistOpen \/ PersistDump \/ Count \/ ExceptException
  \/ Progress \/ FinalSave \/ PostProcess

SpecQuiet == Init /\ [][NextQuiet]_vars

(***************************************************************************)
(* The same launch on a file system whose writes may fail.  The store of   *)
(* line 86 and the persist of lines 89-90 stand inside the try statement   *)
(* of line 81, so an OSError from open or from json.dump goes to the       *)
(* handler of line 107.                                                    *)
(***************************************************************************)
\* line 89: open(..., 'w') raises (results/ missing, no permission); the file
\* is as it was
PersistOpenRaises ==
  /\ status = "running" /\ pc = "persist_open"
  /\ pc' = "except"
  /\ UNCHANGED <<ckpt, durable, all_results, completed_simulations,
                 failed_simulations, params>>
  /\ MainFrame

\* line 90: json.dump raises (disk full, I/O error) after the open of line 89
\* has truncated the file
PersistDumpRaises ==
  /\ status = "running" /\ pc = "persist_dump"
  /\ pc' = "except"
  /\ UNCHANGED <<ckpt, durable, all_results, completed_simulations,
                 failed_simulations, params>>
  /\ MainFrame

NextSave == NextQuiet \/ PersistOpenRaises \/ PersistDumpRaises

SpecSave == Init /\ [][NextSave]_vars

(***************************************************************************)
(* One launch of the sweep over the first NumPerList values of each        *)
(* test-mode list, with no interrupt and no failing run, up to the end of  *)
(* its loops; the checkpoint it finds is absent or holds one entry.        *)
(***************************************************************************)
FirstValues(list) == SubSeq(list, 1, Min(NumPerList, Len(list)))

OrderLists ==
  [gamma_energies |-> FirstValues(test_gamma_energies),
   channel_diameters |-> FirstValues(test_channel_diameters),
   detector_distances |-> FirstValues(test_detector_distances),
   detector_angles |-> FirstValues(test_detector_angles)]

InitOrder ==
  /\ params = OrderLists
  /\ pc = "load"
  /\ status = "running"
  /\ runs = 1
  /\ cwd = "orig"
  /\ ckpt \in {FileAbsent} \cup {json_dump(s) : s \in StoresOver(1, 1)}
  /\ final_file = FileAbsent
  /\ idx = 1
  /\ all_results = EmptyStore
  /\ completed_simulations = 0
  /\ failed_simulations = 0
  /\ result = NoResult
  /\ rs = NoCall
  /\ ki = NoInterrupt
  /\ loaded = EmptyStore
  /\ calls = {}
  /\ returned = EmptyStore
  /\ how = NotEnded
  /\ durable = NoPersist
  /\ prev = NoPrev
  /\ post = NoPost

NextOrder ==
  \/ Load \/ LoopEnd \/ Skip \/ SkipTestRaises \/ Call
  \/ RsBuild \/ RsExport \/ RsRun \/ RsExtract \/ RsVisualize
  \/ Store \/ PersistOpen \/ PersistDump \/ Count \/ Progress

SpecOrder == InitOrder /\ [][NextOrder]_vars

(***************************************************************************)
(* The ranking on its own, from the point where the analysis phase is      *)
(* over: stores of up to MaxRanked entries for the first test-mode         *)
(* configurations in loop order, each entry with one of two doses or with  *)
(* none.                                                                   *)
(***************************************************************************)
test_config_list ==
  LET nd == Len(test_channel_diameters)
      ns == Len(test_detector_distances)
      na == Len(test_detector_angles)
  IN [i \in 1..(Len(test_gamma_energies) * nd * ns * na) |->
        LET j == i - 1
        IN <<test_gamma_energies[(j \div (nd * ns * na)) + 1],
             test_channel_diameters[((j \div (ns * na)) % nd) + 1],
             test_detector_distances[((j \div na) % ns) + 1],
             test_detector_angles[(j % na) + 1]>>]

RankValues(c) ==
  {JDict([fallback_results(c) EXCEPT !.dose_rem_per_hr = d]) :
     d \in {Norm(1, -7), Norm(2, -7)}}
  \cup {JDict([energy |-> c[1], channel_diameter |-> c[2],
               detector_distance |-> c[3], detector_angle |-> c[4]])}

RECURSIVE RankStores(_)
RankStores(n) ==
  IF n = 0 THEN {EmptyStore}
  ELSE {Append(s, [k |-> Key(test_config_list[n]), v |-> v]) :
          s \in RankStores(n - 1), v \in RankValues(test_config_list[n])}

\* a sweep that loaded the store, found no entry to add, and whose first
\* dose-vs-angle plot raised
InitRank ==
  /\ params = ModelledLists
  /\ pc = "rank"
  /\ status = "running"
  /\ runs = 1
  /\ cwd = "orig"
  /\ all_results \in UNION {RankStores(n) : n \in 1..MaxRanked}
  /\ ckpt = json_dump(all_results)
  /\ final_file = json_dump(all_results)
  /\ idx = Len(all_results) + 1
  /\ completed_simulations = Len(SelectSeq(all_results, LAMBDA e : HasDose(e.v)))
  /\ failed_simulations = Len(all_results) - completed_simulations
  /\ result = NoResult
  /\ rs = NoCall
  /\ ki = NoInterrupt
  /\ loaded = all_results
  /\ calls = {all_results[i].k : i \in {i \in DOMAIN all_results :
                                          ~HasDose(all_results[i].v)}}
  /\ returned = EmptyStore
  /\ how = NotEnded
  /\ durable = NoPersist
  /\ prev = NoPrev
  /\ post = [attempted |-> DoseAngleArtifacts(1), critical |-> <<>>]

NextRank == Rank \/ PostEnd

SpecRank == InitRank /\ [][NextRank]_vars

\* ---- get_flux_to_dose_factor on its own --------------------------------------
\* The energies (keV) the factor is evaluated at: every node of the table,
\* energies below its lowest node and energies above its highest.
FactorEnergies ==
  {NodeEnergy(j) : j \in DOMAIN energies}
    \cup {e \in 1..(NodeEnergy(1) - 1) : e >= NodeEnergy(1) - NumOutside}
    \cup {NodeEnergy(Len(energies)) + 1000 * k : k \in 1..NumOutside}

\* a call of get_flux_to_dose_factor(energy) about to be made
InitFactor ==
  /\ params = ModelledLists
  /\ pc = "factor_call"
  /\ status = "running"
  /\ runs = 1
  /\ cwd = "orig"
  /\ ckpt = FileAbsent
  /\ final_file = FileAbsent
  /\ idx = 1
  /\ all_results = EmptyStore
  /\ completed_simulations = 0
  /\ failed_simulations = 0
  /\ result = NoResult
  /\ \E energy \in FactorEnergies :
       rs = [exit |-> "active", exc |-> "none", entry_cwd |-> "orig",
             key |-> <<>>, args |-> <<energy>>]
  /\ ki = NoInterrupt
  /\ loaded = EmptyStore
  /\ calls = {}
  /\ returned = EmptyStore
  /\ how = NotEnded
  /\ durable = NoPersist
  /\ prev = NoPrev
  /\ post = NoPost

\* dose.py 26-35: the call returns
FactorReturn ==
  /\ status = "running" /\ pc = "factor_call"
  /\ result' = [factor |-> flux_to_dose_factor_binary64(rs.args[1])]
  /\ pc' = "factor_done"
  /\ UNCHANGED <<status, runs, cwd, ckpt, final_file, idx, all_results,
                 completed_simulations, failed_simulations, rs, ki, loaded,
                 calls, returned, how, durable, prev, post, params>>

NextFactor == FactorReturn

SpecFactor == InitFactor /\ [][NextFactor]_vars

\* ---- estimate_physics_based_dose on its own ---------------------------------
Range(seq) == {seq[i] : i \in DOMAIN seq}

\* The arguments the estimate is called with: the values of the test-mode
\* lists and zero for each of energy, channel_diameter and path_length; the
\* non-zero path lengths are those of lines 113 and 149 of simulation.py.
AnalyticArguments ==
  ({0} \cup Range(test_gamma_energies))
    \X ({0} \cup Range(test_channel_diameters))
    \X Range(test_detector_distances)
    \X Range(test_detector_angles)
    \X ({FZero} \cup {path_length(d) : d \in Range(test_detector_distances)})

\* a call of estimate_physics_based_dose about to be made
InitAnalytic ==
  /\ params = ModelledLists
  /\ pc = "analytic_call"
  /\ status = "running"
  /\ runs = 1
  /\ cwd = "orig"
  /\ ckpt = FileAbsent
  /\ final_file = FileAbsent
  /\ idx = 1
  /\ all_results = EmptyStore
  /\ completed_simulations = 0
  /\ failed_simulations = 0
  /\ result = NoResult
  /\ \E a \in AnalyticArguments :
       rs = [exit |-> "active", exc |-> "none", entry_cwd |-> "orig",
             key |-> <<>>, args |-> a]
  /\ ki = NoInterrupt
  /\ loaded = EmptyStore
  /\ calls = {}
  /\ returned = EmptyStore
  /\ how = NotEnded
  /\ durable = NoPersist
  /\ prev = NoPrev
  /\ post = NoPost

\* dose.py 93: 1 / (path_length**2) with path_length = 0 raises
\* ZeroDivisionError, which leaves the function
AnalyticRaises ==
  /\ status = "running" /\ pc = "analytic_call"
  /\ rs.args[5] = FZero
  /\ result' = [raised |-> "ZeroDivisionError"]
  /\ rs' = [rs EXCEPT !.exit = "raised", !.exc = "ZeroDivisionError"]
  /\ pc' = "analytic_done"
  /\ UNCHANGED <<status, runs, cwd, ckpt, final_file, idx, all_results,
                 completed_simulations, failed_simulations, ki, loaded,
                 calls, returned, how, durable, prev, post, params>>

\* dose.py 73-119: the call returns
AnalyticReturn ==
  /\ status = "running" /\ pc = "analytic_call"
  /\ rs.args[5] # FZero
  /\ result' = [dose_rem_per_hr |->
                  estimate_physics_based_dose(rs.args[1], rs.args[2],
                                              rs.args[3], rs.args[4],
                                              rs.args[5])]
  /\ rs' = [rs EXCEPT !.exit = "returned"]
  /\ pc' = "analytic_done"
  /\ UNCHANGED <<status, runs, cwd, ckpt, final_file, idx, all_results,
                 completed_simulations, failed_simulations, ki, loaded,
                 calls, returned, how, durable, prev, post, params>>

NextAnalytic == AnalyticRaises \/ AnalyticReturn

SpecAnalytic == InitAnalytic /\ [][NextAnalytic]_vars

(***************************************************************************)
(* Properties.                                                             *)
(***************************************************************************)
Entries(store) == {store[i] : i \in DOMAIN store}

\* the analytic estimate of a configuration, with the path length spelled out
\* in cm: source_to_wall_distance + wall_thickness + detector_distance
AnalyticEstimate(c) ==
  estimate_physics_based_dose(
    c[1], c[2], c[3], c[4],
    Norm(6 * ft_to_cm + 2 * ft_to_cm + 100 * c[3], -2))

\* C1: run_simulation never lets an exception escape: whenever an exception
\* was raised in a call (building the model, running the engine, extracting
\* the tallies) and the call is over, the call returned, and it returned a
\* record whose dose_rem_per_hr is the analytic estimate.
C1_ExceptionsAbsorbed ==
  (rs.exc # "none" /\ rs.exit \in {"returned", "raised"}) =>
    /\ rs.exit = "returned"
    /\ result.dose_rem_per_hr = AnalyticEstimate(rs.args)

\* C2: however a call of run_simulation is left (return, fallback return, an
\* exception or an interrupt leaving the function), the working directory
\* is then the one the call was entered with.
C2_WorkingDirectoryRestored ==
  rs.exit \in {"returned", "raised", "interrupted"} => cwd = rs.entry_cwd

\* C3: a process that was interrupted during the sweep (while a configuration
\* was running, while the checkpoint was being written, or between
\* configurations) ends with a non-zero status and with the store it had in
\* memory written to intermediate_results.json.
C3_InterruptPersistsThenExitsNonZero ==
  (status \in {"exit0", "exit1"} /\ ki.at \in {"running", "writing", "between"})
    => (status = "exit1" /\ how.saved)

C5_SkipStoredDose ==
  [][(/\ status = "running" /\ pc = "loop" /\ idx <= total_simulations
      /\ Has(all_results, Key(configs[idx]))
      /\ "dose_rem_per_hr" \in DOMAIN Get(all_results, Key(configs[idx])).d
      /\ status' = "running")
     => (/\ pc' = "loop"
         /\ idx' = idx + 1
         /\ calls' = calls
         /\ rs' = rs
         /\ all_results' = all_results
         /\ completed_simulations' = completed_simulations + 1
         /\ failed_simulations' = failed_simulations)]_vars

\* the first configuration was loaded with a dose and has been skipped
C5_Witness ==
  /\ status = "running" /\ pc = "loop" /\ idx = 2
  /\ Has(loaded, Key(configs[1])) /\ HasDose(Get(loaded, Key(configs[1])))
  /\ completed_simulations = 1
  /\ calls = {}
  /\ all_results = loaded

\* C6: resume idempotence.  A sweep started after a sweep that completed, on
\* the files that sweep left, ends with the store the first one saved to
\* final_results.json, and has called run_simulation for no configuration it
\* loaded with a dose_rem_per_hr.
C6_ResumeIdempotent ==
  (status = "running" /\ pc = "final_save" /\ prev.normal) =>
    /\ final_file.state = "ok" /\ final_file.data = all_results
    /\ \A e \in Entries(loaded) : HasDose(e.v) => e.k \notin calls

C8_DurableSurvivesCrash ==
  (status = "killed" /\ pc \in {"persist_dump", "ki_dump"}
     /\ durable.state = "ok") =>
    /\ ckpt.state = "ok"
    /\ \A e \in Entries(durable.data) :
         Has(ckpt.data, e.k)

\* C9: no failure tied to one configuration ends the sweep loop early: a
\* process that was not interrupted never ends on an exception.
C9_FailureDoesNotEndSweep ==
  ~(status = "exit0" /\ how.kind = "exception" /\ ki = NoInterrupt)

MinimalKeys ==
  {"energy", "channel_diameter", "detector_distance", "detector_angle",
   "detector_x", "detector_y", "dose_rem_per_hr"}

\* C11: when the engine invocation raised, run_simulation returns a record of
\* exactly the four configuration fields, detector_x, detector_y and the
\* analytic estimate as dose_rem_per_hr; the sweep stores it as the one entry
\* of that key, and a sweep that began with an empty store and has got as far
\* as its first configuration has exactly that one entry.
C11_EngineFailureRecord ==
  (status = "running" /\ rs.exc = "run" /\ rs.exit = "returned") =>
    /\ DOMAIN result = MinimalKeys
    /\ result.energy = rs.args[1] /\ result.channel_diameter = rs.args[2]
    /\ result.detector_distance = rs.args[3]
    /\ result.detector_angle = rs.args[4]
    /\ result.dose_rem_per_hr = AnalyticEstimate(rs.args)
    /\ pc \in {"persist_open", "persist_dump", "count", "progress"} =>
         /\ Cardinality({i \in DOMAIN all_results : all_results[i].k = rs.key})
              = 1
         /\ Get(all_results, rs.key) = JDict(result)
         /\ (loaded = EmptyStore /\ idx = 1) => Len(all_results) = 1

\* the engine raised for the first configuration of a sweep that began with an
\* empty store, and the record has been stored and persisted
C11_Witness ==
  /\ status = "running" /\ pc = "count" /\ idx = 1 /\ loaded = EmptyStore
  /\ rs.exc = "run" /\ rs.exit = "returned"
  /\ Len(all_results) = 1
  /\ DOMAIN all_results[1].v.d = MinimalKeys
  /\ ckpt.state = "ok" /\ ckpt.data = all_results

\* C12: every record run_simulation returns has a dose_rem_per_hr, and has a
\* total_flux, spectrum or mesh_result only if no exception was raised and
\* the statistics were usable (total_flux >= 1e-6 and
\* total_flux * factor >= 1e-10): a record with the fallback dose has none.
C12_FluxFieldsOnlyWhenUsable ==
  (rs.exit = "returned" /\ result # NoResult) =>
    /\ "dose_rem_per_hr" \in DOMAIN result
    /\ ({"total_flux", "spectrum", "mesh_result"} \cap DOMAIN result # {}) =>
         /\ rs.exc = "none"
         /\ ~FLt(result.total_flux, Norm(1, -6))
         /\ ~FLt(FMul(result.total_flux, get_flux_to_dose_factor(rs.args[1])),
                 Norm(1, -10))

\* C13: once the checkpoint is loaded, every key of the store maps to a
\* record that has a dose_rem_per_hr, and that dose is not negative.
C13_StoreDosesValid ==
  (status = "running" /\ pc # "load") =>
    \A e \in Entries(all_results) :
      /\ HasDose(e.v)
      /\ ~FLt(e.v.d.dose_rem_per_hr, FZero)

\* C14: during a sweep the store is append-only.  A step of a running sweep
\* after the load removes no key and leaves every entry with a dose_rem_per_hr
\* as and where it is; a step that changes the store is the store of line 86,
\* it changes the current key only, that key was absent or had no
\* dose_rem_per_hr, and it had not been written by this sweep before.
C14_AppendOnly ==
  [][(status = "running" /\ status' = "running" /\ pc # "load") =>
       /\ \A i \in DOMAIN all_results :
            /\ Has(all_results', all_results[i].k)
            /\ HasDose(all_results[i].v) =>
                 (i \in DOMAIN all_results' /\ all_results'[i] = all_results[i])
       /\ (all_results' # all_results) =>
            /\ pc = "store"
            /\ \A e \in Entries(all_results') :
                 (e \notin Entries(all_results)) => e.k = Key(configs[idx])
            /\ ~(Has(all_results, Key(configs[idx]))
                   /\ HasDose(Get(all_results, Key(configs[idx]))))
            /\ Has(all_results, Key(configs[idx])) =>
                 /\ Has(loaded, Key(configs[idx]))
                 /\ Get(all_results, Key(configs[idx]))
                      = Get(loaded, Key(configs[idx]))]_vars

\* the first configuration was loaded with a dose and skipped; the result of
\* the second has just been stored behind it
C14_Witness ==
  /\ status = "running" /\ pc = "persist_open" /\ idx = 2
  /\ Len(loaded) = 1 /\ HasDose(loaded[1].v)
  /\ Len(all_results) = 2
  /\ all_results[1] = loaded[1]
  /\ all_results[2].k = Key(configs[2])

\* C15: a configuration whose engine run or tally extraction failed is counted
\* as a failure: the step that counts it adds one to failed_simulations and
\* leaves completed_simulations alone.
C15_TransportFailureCountsFailed ==
  [][(status = "running" /\ pc = "count" /\ rs.exc \in {"run", "extract"}
        /\ pc' = "progress")
       => (/\ failed_simulations' = failed_simulations + 1
           /\ completed_simulations' = completed_simulations)]_vars

\* C16: a configuration whose run raised nothing but whose total_flux is
\* below 1e-6 or whose total_flux * factor is below 1e-10 is in the store with
\* the analytic estimate as its dose when it is counted, and the count adds
\* one to completed_simulations and leaves failed_simulations alone.
C16_BelowThresholdCountsCompleted ==
  [][(/\ status = "running" /\ pc = "count" /\ rs.exc = "none"
      /\ \/ FLt(result.total_flux, Norm(1, -6))
         \/ FLt(FMul(result.total_flux, get_flux_to_dose_factor(rs.args[1])),
                Norm(1, -10))
      /\ pc' = "progress")
     => (/\ Has(all_results', rs.key)
         /\ Get(all_results', rs.key).d.dose_rem_per_hr
              = AnalyticEstimate(rs.args)
         /\ completed_simulations' = completed_simulations + 1
         /\ failed_simulations' = failed_simulations)]_vars

\* a run with a flux of 9e-7 has been stored with the analytic dose and
\* counted as completed
C16_Witness ==
  /\ status = "running" /\ pc = "progress" /\ idx = 1
  /\ rs.exc = "none" /\ rs.exit = "returned"
  /\ result.total_flux = Norm(9, -7)
  /\ Get(all_results, rs.key).d.dose_rem_per_hr = AnalyticEstimate(rs.args)
  /\ completed_simulations = 1 /\ failed_simulations = 0

\* every artifact the analysis phase is to produce from a store
AllArtifacts(store) ==
  {Art("dose_vs_angle", gamma_energies[i], -1, -1) :
     i \in DOMAIN gamma_energies}
  \cup {Art("comprehensive_angle", gamma_energies[i], -1, -1) :
          i \in DOMAIN gamma_energies}
  \cup {Art("polar_heatmap", gamma_energies[i], -1, -1) :
          i \in DOMAIN gamma_energies}
  \cup {Art("polar_heatmap", gamma_energies[i], channel_diameters[j], -1) :
          i \in DOMAIN gamma_energies, j \in DOMAIN channel_diameters}
  \cup {Art("spectrum", -1, -1, -1), Art("report", -1, -1, -1)}
  \cup IntensityArtifacts(store)

\* C17: no failure of one post-processing artifact keeps another from being
\* attempted: when the analysis phase of a non-empty store is over, every
\* artifact has been attempted.
C17_EveryArtifactAttempted ==
  (status = "running" /\ pc \in {"rank", "post_end"} /\ Len(all_results) > 0)
    => post.attempted = AllArtifacts(all_results)

\* the key a reported line was cut out of
KeyOfLine(x) ==
  <<"E">> \o x.energy \o <<"_", "D">> \o x.diameter
    \o <<"_", "d", "i", "s", "t">> \o x.distance
    \o <<"_", "a", "n", "g">> \o x.angle

\* where in the store the entry of a reported line is
PositionOfLine(x) ==
  CHOOSE i \in DOMAIN all_results : all_results[i].k = KeyOfLine(x)

\* C18: the reported critical configurations are the min(5, n) entries of
\* largest dose among the n store entries with a dose, in non-increasing dose
\* order, entries of equal dose in store order, each with the four fields of
\* its key.
C18_TopFiveRanking ==
  (status = "running" /\ pc = "post_end") =>
    LET r == post.critical
        with_dose == {i \in DOMAIN all_results : HasDose(all_results[i].v)}
        n == Cardinality(with_dose)
        reported == {PositionOfLine(r[j]) : j \in DOMAIN r}
        DoseAt(i) == all_results[i].v.d.dose_rem_per_hr
    IN /\ Len(r) = IF n < 5 THEN n ELSE 5
       /\ \A j \in DOMAIN r :
            /\ \E i \in with_dose :
                 all_results[i].k = KeyOfLine(r[j]) /\ r[j].dose = DoseAt(i)
            /\ \E c \in test_configs :
                 /\ Key(c) = KeyOfLine(r[j])
                 /\ r[j].energy = <<ToString(c[1])>>
                 /\ r[j].diameter = <<ToString(c[2])>>
                 /\ r[j].distance = <<ToString(c[3])>>
                 /\ r[j].angle = <<ToString(c[4])>>
       /\ \A j, k \in DOMAIN r :
            j < k =>
              /\ ~FLt(r[j].dose, r[k].dose)
              /\ r[j].dose = r[k].dose
                   => PositionOfLine(r[j]) < PositionOfLine(r[k])
       /\ \A i \in with_dose \ reported :
            \A j \in DOMAIN r :
              /\ ~FLt(r[j].dose, DoseAt(i))
              /\ r[j].dose = DoseAt(i) => PositionOfLine(r[j]) < i

\* six entries with a dose, five reported: a larger dose that came late in the
\* store is reported first, equal doses follow in store order, and the last
\* entry of the smaller dose is left out
C18_Witness ==
  /\ status = "running" /\ pc = "post_end"
  /\ Len(all_results) = 6
  /\ \A i \in DOMAIN all_results : HasDose(all_results[i].v)
  /\ Len(post.critical) = 5
  /\ PositionOfLine(post.critical[1]) = 4
  /\ post.critical[2].dose = post.critical[3].dose
  /\ PositionOfLine(post.critical[2]) = 1
  /\ PositionOfLine(post.critical[5]) = 5

\* C19: a checkpoint that exists but cannot be parsed does not end the
\* process: unless the process is interrupted or killed there, its next step
\* leaves it running at the head of the loop with an empty store; a sweep
\* that loaded nothing skips no configuration: at the head of the loop its
\* next step is the call of run_simulation for the current configuration;
\* and when its loop is over it has called run_simulation for every
\* configuration of the cross-product.
C19_UnreadableCheckpoint ==
  /\ []((status = "running" /\ pc = "final_save" /\ loaded = EmptyStore)
          => calls = {Key(configs[i]) : i \in 1..total_simulations})
  /\ [][/\ (status = "running" /\ pc = "load" /\ ckpt.state = "partial"
              /\ how'.kind \notin {"interrupt", "killed"})
           => (/\ status' = "running" /\ pc' = "loop"
               /\ all_results' = EmptyStore /\ idx' = 1)
        /\ (status = "running" /\ pc = "loop" /\ loaded = EmptyStore
              /\ idx <= total_simulations
              /\ how'.kind \notin {"interrupt", "killed"})
           => (/\ status' = "running" /\ pc' = "rs_build"
               /\ calls' = calls \cup {Key(configs[idx])})]_vars

\* the checkpoint could not be parsed, and the sweep is running its second
\* configuration after having run its first
C19_Witness ==
  /\ runs = 1 /\ status = "running" /\ pc = "rs_build" /\ idx = 2
  /\ ckpt = FilePartial
  /\ loaded = EmptyStore
  /\ calls = {Key(configs[1]), Key(configs[2])}

\* the tabulated factor the function is to return exactly at an energy (keV)
\* at or below the lowest node, at or above the highest, or at a node
TabulatedFactor(energy) ==
  IF energy <= NodeEnergy(1) THEN FactorDouble(1)
  ELSE IF energy >= NodeEnergy(Len(energies)) THEN FactorDouble(Len(energies))
  ELSE FactorDouble(CHOOSE j \in DOMAIN energies : NodeEnergy(j) = energy)

\* C20: at or below the lowest tabulated energy, at or above the highest, and
\* at every tabulated energy, get_flux_to_dose_factor returns the tabulated
\* factor exactly.
C20_ExactAtNodes ==
  pc = "factor_done" => result.factor = TabulatedFactor(rs.args[1])

\* C21: for non-negative finite arguments, zero included,
\* estimate_physics_based_dose raises no error and returns a strictly
\* positive value.
C21_PositiveFinite ==
  pc = "analytic_done"
    => (/\ rs.exit = "returned"
        /\ "dose_rem_per_hr" \in DOMAIN result
        /\ FLt(FZero, result.dose_rem_per_hr))

\* the position of a value in a list of distinct values
PositionIn(list, v) == CHOOSE k \in DOMAIN list : list[k] = v

\* configuration a comes before configuration b when the loops nest with the
\* energy outermost, then the diameter, then the distance, then the angle
NestedBefore(a, b) ==
  LET pa == <<PositionIn(gamma_energies, a[1]),
              PositionIn(channel_diameters, a[2]),
              PositionIn(detector_distances, a[3]),
              PositionIn(detector_angles, a[4])>>
      pb == <<PositionIn(gamma_energies, b[1]),
              PositionIn(channel_diameters, b[2]),
              PositionIn(detector_distances, b[3]),
              PositionIn(detector_angles, b[4])>>
  IN \E n \in 1..4 : pa[n] < pb[n] /\ \A m \in 1..(n - 1) : pa[m] = pb[m]

CrossProduct ==
  Range(gamma_energies) \X Range(channel_diameters)
    \X Range(detector_distances) \X Range(detector_angles)

\* C22: at the head of the loops, their positions enumerate the
\* cross-product, each configuration once, in nested order with the energy
\* outermost and the angle innermost;
\* the sweep handles the configuration at its position and moves on by one
\* position at a time, calling run_simulation for no key twice; a checkpoint
\* write for a position holds that position's key and, beyond what was
\* loaded, keys of earlier positions only; and when the loops are over every
\* configuration has been called or skipped.
C22_NestedOrderOncePerRun ==
  /\ []((status = "running" /\ pc = "loop")
          => /\ {configs[i] : i \in DOMAIN configs} = CrossProduct
             /\ Len(configs) = Cardinality(CrossProduct)
             /\ \A i, j \in DOMAIN configs :
                  i < j => NestedBefore(configs[i], configs[j]))
  /\ []((status = "running" /\ pc = "final_save")
          => /\ idx = total_simulations + 1
             /\ \A i \in DOMAIN configs :
                  \/ Key(configs[i]) \in calls
                  \/ skip_test(loaded, Key(configs[i])))
  /\ [][/\ (status = "running" /\ status' = "running" /\ pc # "load")
           => idx' \in {idx, idx + 1}
        /\ (status = "running" /\ pc = "loop" /\ pc' = "rs_build")
           => (/\ rs'.args = configs[idx]
               /\ rs'.key \notin calls
               /\ \A i \in 1..(idx - 1) :
                    \/ Key(configs[i]) \in calls
                    \/ skip_test(loaded, Key(configs[i])))
        /\ (status = "running" /\ pc = "persist_dump" /\ pc' = "count")
           => (/\ Key(configs[idx]) \in Keys(ckpt'.data)
               /\ Keys(ckpt'.data) \ Keys(loaded)
                    \subseteq {Key(configs[i]) : i \in 1..idx})
        /\ (status = "running" /\ pc = "progress" /\ status' = "running")
           => (idx' = idx + 1 /\ pc' = "loop")]_vars

\* the loops of a sweep over lists of more than one value each are over, and
\* every configuration was handled
C22_Witness ==
  /\ status = "running" /\ pc = "final_save"
  /\ \A n \in {Len(gamma_energies), Len(channel_diameters),
               Len(detector_distances), Len(detector_angles)} : n > 1
  /\ Cardinality(calls) = total_simulations
  /\ Len(ckpt.data) = total_simulations

\* C23: when the extraction has built a results dict with usable statistics
\* (total_flux >= 1e-6 and total_flux * factor >= 1e-10), the record the call
\* returns has dose_rem_per_hr = total_flux * factor and carries total_flux,
\* spectrum and mesh_result, whatever the visualization calls do.
C23_PlottingFailureKeepsMonteCarloDose ==
  [][(/\ status = "running" /\ rs.exit = "active"
      /\ result # NoResult /\ "total_flux" \in DOMAIN result
      /\ ~FLt(result.total_flux, Norm(1, -6))
      /\ ~FLt(FMul(result.total_flux, get_flux_to_dose_factor(rs.args[1])),
              Norm(1, -10))
      /\ rs'.exit = "returned")
     => (/\ {"total_flux", "spectrum", "mesh_result"} \subseteq DOMAIN result'
         /\ result'.dose_rem_per_hr =
              FMul(result.total_flux, get_flux_to_dose_factor(rs.args[1])))]_vars

\* C24: a configuration counted as failed leaves the stored state as it was
\* before the configuration started.  At the step that adds one to
\* failed_simulations the store holds nothing written for the current key
\* (the key is absent, or its entry is the one that was loaded), and no write
\* of the checkpoint was begun and left unfinished.
C24_FailedLeavesStoredStateUnchanged ==
  [][(/\ status = "running" /\ pc = "except"
      /\ failed_simulations' = failed_simulations + 1)
     => (/\ Has(all_results, Key(configs[idx]))
              => (/\ Has(loaded, Key(configs[idx]))
                  /\ Get(all_results, Key(configs[idx]))
                       = Get(loaded, Key(configs[idx])))
         /\ durable = NoPersist)]_vars

\* C25: in a running sweep, once the counters are set,
\* completed_simulations + failed_simulations is the number of configurations
\* handled so far: the positions the loops have left behind, and the current
\* one once it has been counted.  A step adds one to at most one of the two
\* counters and takes nothing away; the sum never exceeds total_simulations
\* and is total_simulations when the loops are over.
C25_CountersCountHandled ==
  /\ []((status = "running" /\ pc # "load")
          => /\ completed_simulations + failed_simulations
                  = IF pc = "progress" THEN idx ELSE idx - 1
             /\ completed_simulations + failed_simulations <= total_simulations
             /\ (pc \notin {"loop", "progress", "except"} \cup TryPcs
                    \cup {"ki_open", "ki_dump", "ki_exit"})
                  => completed_simulations + failed_simulations
                       = total_simulations)
  /\ [][(status = "running" /\ status' = "running" /\ pc # "load")
          => <<completed_simulations' - completed_simulations,
               failed_simulations' - failed_simulations>>
               \in {<<0, 0>>, <<1, 0>>, <<0, 1>>}]_vars

\* the loops are over after one configuration was skipped and one failed
C25_Witness ==
  /\ status = "running" /\ pc = "final_save"
  /\ completed_simulations = 1 /\ failed_simulations = 1
  /\ skip_test(loaded, Key(configs[1]))
  /\ calls = {Key(configs[2])}
  /\ rs.exit = "raised"

====
